---- MODULE Spec2Model ----
(***************************************************************************)
(* A state-machine model of lib/FF3Cipher.js (mysto/node-fpe): the FF3 /    *)
(* FF3-1 format-preserving cipher.  Strings are sequences of one-character *)
(* strings, byte buffers are sequences of 0..255, and a JavaScript BigInt  *)
(* is a sign and a magnitude held as little-endian limbs, so that every    *)
(* conversion of the code (parseInt, toString(radix), hex, bytes) is       *)
(* computed and not assumed.                                               *)
(***************************************************************************)
EXTENDS Integers, Sequences, FiniteSets, TLC

(***************************************************************************)
(* Program constants (lib/FF3Cipher.js lines 20-26).                       *)
(***************************************************************************)
DOMAIN_MIN == 1000000
NUM_ROUNDS == 8
BLOCK_SIZE == 16
TWEAK_LEN == 8
TWEAK_LEN_NEW == 7
HALF_TWEAK_LEN == TWEAK_LEN \div 2
MAX_RADIX == 36

(***************************************************************************)
(* Characters.  Alphabet is the digit alphabet of BigInt.toString(radix)   *)
(* and of parseInt; parseInt also reads the upper-case letters.            *)
(***************************************************************************)
Alphabet ==
  << "0", "1", "2", "3", "4", "5", "6", "7", "8", "9", "a", "b", "c", "d",
     "e", "f", "g", "h", "i", "j", "k", "l", "m", "n", "o", "p", "q", "r",
     "s", "t", "u", "v", "w", "x", "y", "z" >>

UpperLetters ==
  << "A", "B", "C", "D", "E", "F", "G", "H", "I", "J", "K", "L", "M", "N",
     "O", "P", "Q", "R", "S", "T", "U", "V", "W", "X", "Y", "Z" >>

\* The value parseInt gives a character, -1 for a character that is no digit
\* of any radix.
CharValue(ch) ==
  IF \E i \in 1..Len(Alphabet) : Alphabet[i] = ch
    THEN (CHOOSE i \in 1..Len(Alphabet) : Alphabet[i] = ch) - 1
    ELSE IF \E i \in 1..Len(UpperLetters) : UpperLetters[i] = ch
      THEN (CHOOSE i \in 1..Len(UpperLetters) : UpperLetters[i] = ch) + 9
      ELSE -1

\* s.split('').reverse().join('')
reverseString(s) == [i \in 1..Len(s) |-> s[Len(s) + 1 - i]]

\* String.prototype.substring(from, to) with 0-based indices: arguments below
\* 0 count as 0, above the length as the length, and are swapped when from > to.
Clamp(x, n) == IF x < 0 THEN 0 ELSE IF x > n THEN n ELSE x
substring(s, from, to) ==
  LET a == Clamp(from, Len(s))
      b == Clamp(to, Len(s))
      lo == IF a <= b THEN a ELSE b
      hi == IF a <= b THEN b ELSE a
  IN SubSeq(s, lo + 1, hi)

\* String.prototype.slice(from, to) with 0-based non-negative indices.
slice(s, from, to) ==
  LET a == Clamp(from, Len(s))
      b == Clamp(to, Len(s))
  IN IF a < b THEN SubSeq(s, a + 1, b) ELSE << >>

(***************************************************************************)
(* Arbitrary-precision integers.  A magnitude is a little-endian sequence  *)
(* of limbs below LimbBase with no zero limb on top (zero is << >>).       *)
(***************************************************************************)
LimbBits == 15
LimbBase == 2 ^ LimbBits

Limb(a, i) == IF i <= Len(a) THEN a[i] ELSE 0

RECURSIVE MagNorm(_)
MagNorm(a) ==
  IF a = << >> THEN a
  ELSE IF a[Len(a)] = 0 THEN MagNorm(SubSeq(a, 1, Len(a) - 1)) ELSE a

\* -1, 0, 1 as a < b, a = b, a > b.
RECURSIVE MagCmpFrom(_, _, _)
MagCmpFrom(a, b, i) ==
  IF i = 0 THEN 0
  ELSE IF a[i] < b[i] THEN -1
  ELSE IF a[i] > b[i] THEN 1
  ELSE MagCmpFrom(a, b, i - 1)

MagCmp(a, b) ==
  IF Len(a) < Len(b) THEN -1
  ELSE IF Len(a) > Len(b) THEN 1
  ELSE MagCmpFrom(a, b, Len(a))

RECURSIVE MagAddFrom(_, _, _, _)
MagAddFrom(a, b, i, carry) ==
  IF i > Len(a) /\ i > Len(b)
    THEN (IF carry = 0 THEN << >> ELSE << carry >>)
    ELSE LET s == Limb(a, i) + Limb(b, i) + carry
         IN << s % LimbBase >> \o MagAddFrom(a, b, i + 1, s \div LimbBase)

MagAdd(a, b) == MagAddFrom(a, b, 1, 0)

\* a - b for a >= b.
RECURSIVE MagSubFrom(_, _, _, _)
MagSubFrom(a, b, i, borrow) ==
  IF i > Len(a) THEN << >>
  ELSE LET d == a[i] - Limb(b, i) - borrow
       IN IF d < 0
            THEN << d + LimbBase >> \o MagSubFrom(a, b, i + 1, 1)
            ELSE << d >> \o MagSubFrom(a, b, i + 1, 0)

MagSub(a, b) == MagNorm(MagSubFrom(a, b, 1, 0))

\* a * k + c for k and c below LimbBase.
RECURSIVE MagMulSmallFrom(_, _, _, _)
MagMulSmallFrom(a, k, i, carry) ==
  IF i > Len(a)
    THEN (IF carry = 0 THEN << >> ELSE << carry >>)
    ELSE LET s == a[i] * k + carry
         IN << s % LimbBase >> \o MagMulSmallFrom(a, k, i + 1, s \div LimbBase)

MagMulSmall(a, k, c) == MagNorm(MagMulSmallFrom(a, k, 1, c))

\* Quotient and remainder of a by k, 0 < k < LimbBase.
RECURSIVE MagDivSmallFrom(_, _, _, _)
MagDivSmallFrom(a, k, i, rem) ==
  IF i > Len(a) THEN [q |-> << >>, r |-> rem]
  ELSE LET cur == rem * LimbBase + a[Len(a) + 1 - i]
           rest == MagDivSmallFrom(a, k, i + 1, cur % k)
       IN [q |-> Append(rest.q, cur \div k), r |-> rest.r]

MagDivSmall(a, k) ==
  LET d == MagDivSmallFrom(a, k, 1, 0)
  IN [q |-> MagNorm(d.q), r |-> d.r]

RECURSIVE SmallBitLen(_)
SmallBitLen(x) == IF x = 0 THEN 0 ELSE 1 + SmallBitLen(x \div 2)

MagBitLen(a) ==
  IF a = << >> THEN 0 ELSE (Len(a) - 1) * LimbBits + SmallBitLen(a[Len(a)])

\* a shifted up by n whole limbs.
MagShiftLimbs(a, n) ==
  IF a = << >> THEN a ELSE [i \in 1..(Len(a) + n) |-> IF i <= n THEN 0 ELSE a[i - n]]

\* a * b, limb by limb of b.
RECURSIVE MagMulFrom(_, _, _)
MagMulFrom(a, b, j) ==
  IF j > Len(b) THEN << >>
  ELSE MagAdd(MagShiftLimbs(MagMulSmall(a, b[j], 0), j - 1),
              MagMulFrom(a, b, j + 1))

MagMul(a, b) == MagMulFrom(a, b, 1)

\* Long division by b > 0 whose top limb is at least LimbBase / 2.  With r < b
\* the remainder so far and x the next limb of the dividend, cur = r * LimbBase
\* + x; the quotient limb is at most the quotient of the two top limbs of cur
\* by the top limb of b (MagDivGuess), and MagDivTry lowers that guess until the
\* product with b fits under cur.
MagDivGuess(cur, b) ==
  IF (Limb(cur, Len(b) + 1) * LimbBase + Limb(cur, Len(b))) \div b[Len(b)]
       > LimbBase - 1
    THEN LimbBase - 1
    ELSE (Limb(cur, Len(b) + 1) * LimbBase + Limb(cur, Len(b))) \div b[Len(b)]

RECURSIVE MagDivTry(_, _, _)
MagDivTry(cur, b, q) ==
  IF MagCmp(MagMulSmall(b, q, 0), cur) > 0 THEN MagDivTry(cur, b, q - 1)
  ELSE [q |-> q, r |-> MagSub(cur, MagMulSmall(b, q, 0))]

MagDivLimb(x, b, r) == MagDivTry(MagNorm(<< x >> \o r), b, MagDivGuess(MagNorm(<< x >> \o r), b))

\* Quotient and remainder of a by such a b, from the top limb of a (i = 1)
\* down: q holds the quotient limbs found so far (none while they are zero)
\* and r the remainder; d is the division of the limb at hand.
RECURSIVE MagDivModFrom(_, _, _, _, _)
RECURSIVE MagDivModStep(_, _, _, _, _)
MagDivModFrom(a, b, i, q, r) ==
  IF i > Len(a) THEN [q |-> q, r |-> r]
  ELSE MagDivModStep(a, b, i, q, MagDivLimb(a[Len(a) + 1 - i], b, r))

MagDivModStep(a, b, i, q, d) ==
  IF d.q = 0 /\ q = << >>
    THEN MagDivModFrom(a, b, i + 1, << >>, d.r)
    ELSE MagDivModFrom(a, b, i + 1, << d.q >> \o q, d.r)

\* Quotient and remainder of a by b > 0: both are first multiplied by the power
\* of two d that brings the top limb of b to LimbBase / 2 or above, which
\* leaves the quotient as it is and multiplies the remainder by d.
MagDivModBy(qr, d) == [q |-> qr.q, r |-> MagDivSmall(qr.r, d).q]

MagDivModScaled(a, b, d) ==
  MagDivModBy(MagDivModFrom(MagMulSmall(a, d, 0), MagMulSmall(b, d, 0),
                            1, << >>, << >>), d)

MagDivMod(a, b) ==
  MagDivModScaled(a, b, 2 ^ (LimbBits - SmallBitLen(b[Len(b)])))

MagOfInt(x) ==
  MagNorm(<< x % LimbBase, (x \div LimbBase) % LimbBase,
             x \div (LimbBase * LimbBase) >>)

(***************************************************************************)
(* JavaScript BigInt: [neg, mag], zero being [neg |-> FALSE, mag |-> <<>>]. *)
(***************************************************************************)
Big(neg, mag) == [neg |-> neg /\ mag # << >>, mag |-> mag]
BigOfInt(x) == IF x < 0 THEN Big(TRUE, MagOfInt(-x)) ELSE Big(FALSE, MagOfInt(x))
BigZero == Big(FALSE, << >>)

\* x + y
BigAdd(x, y) ==
  IF x.neg = y.neg THEN Big(x.neg, MagAdd(x.mag, y.mag))
  ELSE IF MagCmp(x.mag, y.mag) >= 0 THEN Big(x.neg, MagSub(x.mag, y.mag))
  ELSE Big(y.neg, MagSub(y.mag, x.mag))

\* x - y
BigSub(x, y) == BigAdd(x, Big(~y.neg, y.mag))

\* x * y
BigMul(x, y) == Big(x.neg # y.neg, MagMul(x.mag, y.mag))

\* x % y of JavaScript: the remainder of the division truncated towards zero,
\* which takes the sign of x.
BigRem(x, y) == Big(x.neg, MagDivMod(x.mag, y.mag).r)

\* x / y of JavaScript: the quotient truncated towards zero.
BigQuot(x, y) == Big(x.neg # y.neg, MagDivMod(x.mag, y.mag).q)

\* x ** BigInt(e) for a small e >= 0 (by squaring: the value is exact).
RECURSIVE BigPow(_, _)
BigPow(x, e) ==
  IF e = 0 THEN BigOfInt(1)
  ELSE IF e % 2 = 1 THEN BigMul(BigPow(x, e - 1), x)
  ELSE LET h == BigPow(x, e \div 2) IN BigMul(h, h)

\* x < y
BigLess(x, y) ==
  IF x.neg # y.neg THEN x.neg
  ELSE IF x.neg THEN MagCmp(x.mag, y.mag) > 0 ELSE MagCmp(x.mag, y.mag) < 0

\* The digits of a magnitude in a radix, most significant first ("" for 0).
\* The digits are taken off in groups of GroupLen(radix) at a time, a group
\* being one division by radix^GroupLen < LimbBase.
RECURSIVE GroupLenFrom(_, _, _)
GroupLenFrom(radix, n, pow) ==
  IF pow * radix >= LimbBase THEN n ELSE GroupLenFrom(radix, n + 1, pow * radix)

GroupLen(radix) == GroupLenFrom(radix, 1, radix)

\* The n low digits of x < radix^n, most significant first.
RECURSIVE SmallDigits(_, _, _)
SmallDigits(x, radix, n) ==
  IF n = 0 THEN << >>
  ELSE Append(SmallDigits(x \div radix, radix, n - 1), Alphabet[(x % radix) + 1])

RECURSIVE StripZeros(_)
StripZeros(s) == IF s # << >> /\ s[1] = "0" THEN StripZeros(Tail(s)) ELSE s

RECURSIVE MagGroups(_, _, _)
RECURSIVE MagGroupsOf(_, _, _)
MagGroups(a, radix, g) ==
  IF a = << >> THEN << >> ELSE MagGroupsOf(MagDivSmall(a, radix ^ g), radix, g)

MagGroupsOf(d, radix, g) ==
  MagGroups(d.q, radix, g) \o SmallDigits(d.r, radix, g)

MagDigits(a, radix) == StripZeros(MagGroups(a, radix, GroupLen(radix)))

\* BigInt.prototype.toString(radix)
BigToString(x, radix) ==
  IF x.mag = << >> THEN << "0" >>
  ELSE (IF x.neg THEN << "-" >> ELSE << >>) \o MagDigits(x.mag, radix)

(***************************************************************************)
(* parseInt(v, radix) for 2 <= radix <= 36 on a string without white space *)
(* (and, for radix 16, without the prefix 0x): after a sign "-" or "+", if *)
(* there is one, the value of the longest prefix of digits of the radix,   *)
(* negated after "-"; NaN when that prefix is empty.  The result is a      *)
(* Number: the value rounded                                               *)
(* to the 53 bits of a double (to nearest, ties to even), which is the     *)
(* value itself when it is below 2^53.                                     *)
(***************************************************************************)
\* The double nearest to the integer of magnitude mag.  NumberRounded is mag
\* cut to its 53 leading bits, d being mag divided by 2^k and half 2^(k-1).
NumberBits == 53

\* 2^k
Pow2Mag(k) == BigPow(BigOfInt(2), k).mag

NumberRounded(d, half, k) ==
  IF MagCmp(d.r, half) > 0 \/ (MagCmp(d.r, half) = 0 /\ Limb(d.q, 1) % 2 = 1)
    THEN MagMul(MagAdd(d.q, << 1 >>), Pow2Mag(k))
    ELSE MagMul(d.q, Pow2Mag(k))

NumberCut(mag, k) ==
  NumberRounded(MagDivMod(mag, Pow2Mag(k)), Pow2Mag(k - 1), k)

NumberOf(mag) ==
  IF MagBitLen(mag) <= NumberBits THEN mag
  ELSE NumberCut(mag, MagBitLen(mag) - NumberBits)

RECURSIVE DigitPrefixLen(_, _, _)
DigitPrefixLen(v, radix, i) ==
  IF i > Len(v) THEN Len(v)
  ELSE IF CharValue(v[i]) >= 0 /\ CharValue(v[i]) < radix
    THEN DigitPrefixLen(v, radix, i + 1)
    ELSE i - 1

\* The value of the n digits of v from position i, n <= GroupLen(radix).
RECURSIVE SmallValue(_, _, _, _)
SmallValue(v, radix, i, n) ==
  IF n = 0 THEN 0
  ELSE SmallValue(v, radix, i, n - 1) * radix + CharValue(v[i + n - 1])

\* The value of the digits of v from position i on, after those of value acc:
\* Horner's rule, GroupLen(radix) digits at a time.
RECURSIVE HornerMag(_, _, _, _)
HornerMag(v, radix, i, acc) ==
  IF i > Len(v) THEN acc
  ELSE LET left == Len(v) + 1 - i
           n == IF left < GroupLen(radix) THEN left ELSE GroupLen(radix)
       IN HornerMag(v, radix, i + n,
                    MagMulSmall(acc, radix ^ n, SmallValue(v, radix, i, n)))

\* The characters of the sign parseInt reads before the digits: 0 or 1.
SignLen(v) == IF v # << >> /\ (v[1] = "-" \/ v[1] = "+") THEN 1 ELSE 0

parseInt(v, radix) ==
  LET s == SignLen(v)
      n == DigitPrefixLen(v, radix, s + 1) - s
  IN IF n = 0 THEN [nan |-> TRUE, val |-> BigZero]
     ELSE [nan |-> FALSE,
           val |-> Big(s = 1 /\ v[1] = "-",
                       NumberOf(HornerMag(SubSeq(v, s + 1, s + n), radix, 1, << >>)))]

\* The chunks of convertToBigInt: the first of value.length % size || size
\* characters, the others of size characters.
RECURSIVE PartsFrom(_, _, _)
PartsFrom(value, i, size) ==
  IF i < Len(value)
    THEN << slice(value, i, i + size) >> \o PartsFrom(value, i + size, size)
    ELSE << >>

\* parts.reduce((r, v) => r * factor + BigInt(parseInt(v, radix)), 0n), from
\* part k on: [ok, val].  ReducePart is the callback on the part whose
\* parseInt is p; BigInt(NaN) throws a RangeError (ok = FALSE).  The test of
\* r = BigZero changes nothing in the result: it has r computed before the
\* next part is taken.
RECURSIVE ReduceParts(_, _, _, _, _)
RECURSIVE ReducePart(_, _, _, _, _, _)
ReduceParts(parts, k, radix, factor, r) ==
  IF k > Len(parts) THEN [ok |-> TRUE, val |-> r]
  ELSE IF r = BigZero
    THEN ReducePart(parts, k, radix, factor, BigZero, parseInt(parts[k], radix))
  ELSE ReducePart(parts, k, radix, factor, r, parseInt(parts[k], radix))

ReducePart(parts, k, radix, factor, r, p) ==
  IF p.nan THEN [ok |-> FALSE, val |-> BigZero]
  ELSE ReduceParts(parts, k + 1, radix, factor, BigAdd(BigMul(r, factor), p.val))

\* let size = 10
size == 10

\* A first chunk of size characters whatever the length: the chunks cut from
\* the front of the string.
FirstPartLenWhole(value) == size

\* let i = value.length % size || size
FirstPartLen(value) ==
  IF Len(value) % size # 0 THEN Len(value) % size ELSE size

\* let parts = [value.slice(0, i)].concat(value.slice(i).match(...) ?? [])
parts(value) ==
  << slice(value, 0, FirstPartLen(value)) >>
    \o PartsFrom(value, FirstPartLen(value), size)

\* convertToBigInt(value, radix): [ok, val], ok = FALSE when it throws.
convertToBigInt(value, radix) ==
  ReduceParts(parts(value), 1, radix, BigPow(BigOfInt(radix), size), BigZero)

\* The bytes of a string of hexadecimal digits of even length, pair by pair:
\* u8[i] = parseInt(hex.slice(j, j + 2), 16).
RECURSIVE HexPairs(_, _)
HexPairs(hex, j) ==
  IF j >= Len(hex) THEN << >>
  ELSE << CharValue(hex[j + 1]) * 16 + CharValue(hex[j + 2]) >>
         \o HexPairs(hex, j + 2)

\* if (hex.length % 2) { hex = '0' + hex }
EvenHex(hex) == IF Len(hex) % 2 # 0 THEN << "0" >> \o hex ELSE hex

\* bigToUint8Array(big): a negative big first has 1n << bits added, bits being
\* (BigInt(big.toString(2).length) / 8n + 1n) * 8n.
bigToUint8Array(big) ==
  HexPairs(
    EvenHex(
      BigToString(
        IF BigLess(big, BigZero)
          THEN BigAdd(big,
                 BigMul(BigOfInt(1),
                   BigPow(BigOfInt(2),
                          ((Len(BigToString(big, 2)) \div 8) + 1) * 8)))
          ELSE big,
        16)),
    0)

\* Buffer.prototype.toString('hex')
RECURSIVE BufferToHex(_)
BufferToHex(buf) ==
  IF buf = << >> THEN << >>
  ELSE << Alphabet[(buf[1] \div 16) + 1], Alphabet[(buf[1] % 16) + 1] >>
         \o BufferToHex(Tail(buf))

\* BigInt('0x' + hex)
BigIntOfHex(hex) == Big(FALSE, HornerMag(hex, 16, 1, << >>))

\* Uint8Array.prototype.reverse / Buffer.prototype.reverse
reverseBytes(b) == [i \in 1..Len(b) |-> b[Len(b) + 1 - i]]

\* Buffer.from(str, 'hex'): one byte per pair of hexadecimal digits, stopping
\* at the first pair that is not two hexadecimal digits; a last single
\* character is dropped.
IsHexChar(ch) == CharValue(ch) >= 0 /\ CharValue(ch) < 16
RECURSIVE BufferFromHex(_)
BufferFromHex(str) ==
  IF Len(str) < 2 THEN << >>
  ELSE IF IsHexChar(str[1]) /\ IsHexChar(str[2])
    THEN << CharValue(str[1]) * 16 + CharValue(str[2]) >>
           \o BufferFromHex(SubSeq(str, 3, Len(str)))
    ELSE << >>

\* a & b and a ^ b on bytes, bit by bit.
RECURSIVE BitAnd(_, _)
BitAnd(a, b) ==
  IF a = 0 \/ b = 0 THEN 0
  ELSE (IF a % 2 = 1 /\ b % 2 = 1 THEN 1 ELSE 0) + 2 * BitAnd(a \div 2, b \div 2)

RECURSIVE BitXor(_, _)
BitXor(a, b) ==
  IF a = 0 THEN b
  ELSE IF b = 0 THEN a
  ELSE (IF a % 2 # b % 2 THEN 1 ELSE 0) + 2 * BitXor(a \div 2, b \div 2)

(***************************************************************************)
(* Numbers (IEEE doubles) in the constructor's computation of minLen and   *)
(* maxLen.  A positive double is [m, e]: the value m * 2^e with            *)
(* 2^52 <= m < 2^53.  Math.log is the engine's (V8's port of fdlibm); its  *)
(* values at the arguments the constructor passes are tabulated, the       *)
(* division, Math.ceil and Math.floor are computed.                        *)
(***************************************************************************)
\* Math.log(radix) for radix = 2..36, at index radix - 1.
LogTable ==
  <<
    [m |-> << 14831, 32244, 14603, 177 >>, e |-> -53],
    [m |-> << 778, 30042, 20393, 140 >>, e |-> -52],
    [m |-> << 14831, 32244, 14603, 177 >>, e |-> -52],
    [m |-> << 3379, 28635, 263, 206 >>, e |-> -52],
    [m |-> << 8194, 29780, 11311, 229 >>, e |-> -52],
    [m |-> << 23127, 23652, 2506, 249 >>, e |-> -52],
    [m |-> << 11123, 32375, 2760, 133 >>, e |-> -51],
    [m |-> << 779, 30042, 20393, 140 >>, e |-> -51],
    [m |-> << 21782, 30570, 11974, 147 >>, e |-> -51],
    [m |-> << 14156, 28414, 15246, 153 >>, e |-> -51],
    [m |-> << 7805, 31143, 1114, 159 >>, e |-> -51],
    [m |-> << 3153, 22115, 5136, 164 >>, e |-> -51],
    [m |-> << 15271, 11695, 29480, 168 >>, e |-> -51],
    [m |-> << 18463, 29338, 10328, 173 >>, e |-> -51],
    [m |-> << 14831, 32244, 14603, 177 >>, e |-> -51],
    [m |-> << 32634, 1012, 10671, 181 >>, e |-> -51],
    [m |-> << 4486, 29911, 32236, 184 >>, e |-> -51],
    [m |-> << 13100, 3081, 14552, 188 >>, e |-> -51],
    [m |-> << 25489, 30439, 23817, 191 >>, e |-> -51],
    [m |-> << 11953, 10463, 27834, 194 >>, e |-> -51],
    [m |-> << 17864, 28283, 27089, 197 >>, e |-> -51],
    [m |-> << 13296, 31651, 22007, 200 >>, e |-> -51],
    [m |-> << 11513, 31012, 12957, 203 >>, e |-> -51],
    [m |-> << 3379, 28635, 263, 206 >>, e |-> -51],
    [m |-> << 6861, 21984, 16979, 208 >>, e |-> -51],
    [m |-> << 1168, 28679, 30590, 210 >>, e |-> -51],
    [m |-> << 18979, 11564, 8555, 213 >>, e |-> -51],
    [m |-> << 32287, 6043, 16611, 215 >>, e |-> -51],
    [m |-> << 22171, 29207, 22171, 217 >>, e |-> -51],
    [m |-> << 11098, 4386, 25401, 219 >>, e |-> -51],
    [m |-> << 18539, 32113, 26446, 221 >>, e |-> -51],
    [m |-> << 14545, 27051, 25443, 223 >>, e |-> -51],
    [m |-> << 3574, 882, 22514, 225 >>, e |-> -51],
    [m |-> << 29637, 9759, 17769, 227 >>, e |-> -51],
    [m |-> << 8194, 29780, 11311, 229 >>, e |-> -51]
  >>

\* Math.log(DOMAIN_MIN)
LogDomainMin == [m |-> << 32672, 13087, 1578, 221 >>, e |-> -49]

\* Math.log(2**96)
LogTwo96 == [m |-> << 11123, 32375, 2760, 133 >>, e |-> -46]

MathLog(radix) == LogTable[radix - 1]

MagToInt(a) == Limb(a, 1) + LimbBase * Limb(a, 2)

\* a / b of two positive doubles, rounded to the nearest double, ties to even.
\* The quotient of the mantissas is taken to 54 bits (d, with k the shift that
\* gives it 54 bits); FloatRound drops the last bit (half is d.q halved),
\* rounding up when the bits dropped are more than a half, or a half and the
\* mantissa kept is odd.
FloatShift(a, b) == IF MagCmp(a.m, b.m) >= 0 THEN 53 ELSE 54

FloatRoundHalf(d, half, e) ==
  [m |-> IF half.r = 1 /\ (d.r # << >> \/ MagDivSmall(half.q, 2).r = 1)
           THEN MagAdd(half.q, << 1 >>)
           ELSE half.q,
   e |-> e]

FloatRound(d, e) == FloatRoundHalf(d, MagDivSmall(d.q, 2), e)

FloatDiv(a, b) ==
  FloatRound(MagDivMod(MagMul(a.m, Pow2Mag(FloatShift(a, b))), b.m),
             a.e - b.e - FloatShift(a, b) + 1)

\* A floor that would round up what is no integer.
MathFloorRoundsUp(x) ==
  IF x.e >= 0 THEN MagToInt(MagMul(x.m, Pow2Mag(x.e)))
  ELSE MagToInt(MagDivMod(x.m, Pow2Mag(-x.e)).q)
         + (IF MagDivMod(x.m, Pow2Mag(-x.e)).r # << >> THEN 1 ELSE 0)

\* Math.floor(x) and Math.ceil(x) of a positive double below 2^30.
MathFloor(x) ==
  IF x.e >= 0 THEN MagToInt(MagMul(x.m, Pow2Mag(x.e)))
  ELSE MagToInt(MagDivMod(x.m, Pow2Mag(-x.e)).q)

CeilOf(d) == MagToInt(d.q) + (IF d.r # << >> THEN 1 ELSE 0)

MathCeil(x) ==
  IF x.e >= 0 THEN MagToInt(MagMul(x.m, Pow2Mag(x.e)))
  ELSE CeilOf(MagDivMod(x.m, Pow2Mag(-x.e)))

\* this.minLen = Math.ceil(Math.log(DOMAIN_MIN) / Math.log(radix));
MinLenOf(radix) == MathCeil(FloatDiv(LogDomainMin, MathLog(radix)))

\* Math.floor(2 * Math.log(2**96) / Math.log(radix)): the floor taken after the
\* doubling (C9).
MaxLenOfFloorLast(radix) ==
  MathFloor(FloatDiv([m |-> LogTwo96.m, e |-> LogTwo96.e + 1], MathLog(radix)))

\* this.maxLen = (2 * Math.floor(Math.log(2**96)/Math.log(radix)));
MaxLenOf(radix) == 2 * MathFloor(FloatDiv(LogTwo96, MathLog(radix)))

(***************************************************************************)
(* The tweak.                                                              *)
(***************************************************************************)
\* A byte of a buffer by 0-based index; an index past the end reads as 0
\* (undefined stored into a byte array, or undefined ^ i).
ByteAt(buf, k) == IF k + 1 <= Len(buf) THEN buf[k + 1] ELSE 0

\* The expansion with (tweak56[3] & 0xF0) << 4 as its last byte (C10).
calculateTweak64_HighNibble(tweak56) ==
  << ByteAt(tweak56, 0),
     ByteAt(tweak56, 1),
     ByteAt(tweak56, 2),
     BitAnd(ByteAt(tweak56, 3), 240),
     ByteAt(tweak56, 4),
     ByteAt(tweak56, 5),
     ByteAt(tweak56, 6),
     (BitAnd(ByteAt(tweak56, 3), 240) * 16) % 256 >>

\* FF3Cipher.calculateTweak64_FF3_1(tweak56)
calculateTweak64_FF3_1(tweak56) ==
  << ByteAt(tweak56, 0),
     ByteAt(tweak56, 1),
     ByteAt(tweak56, 2),
     BitAnd(ByteAt(tweak56, 3), 240),
     ByteAt(tweak56, 4),
     ByteAt(tweak56, 5),
     ByteAt(tweak56, 6),
     (BitAnd(ByteAt(tweak56, 3), 15) * 16) % 256 >>

(***************************************************************************)
(* The block cipher.  crypto.createCipheriv(algo, keyBytes, '') with       *)
(* setAutoPadding(false) is a handle that holds the key and the bytes not  *)
(* yet making a whole block; update(data) returns the encryption of every  *)
(* whole block it now holds.  AES itself is outside the repository: FF3    *)
(* asks nothing of it but to be a function of the key and the block, and   *)
(* AesBlock is one such function (it is the zero block under a zero key    *)
(* and depends on every byte of the block and of the key otherwise).       *)
(***************************************************************************)
AesBlock(keyBytes, block) ==
  [j \in 1..BLOCK_SIZE |->
     (keyBytes[((j - 1) % Len(keyBytes)) + 1]
        * (block[j] + 3 * block[BLOCK_SIZE + 1 - j] + j)) % 256]

\* A handle that would hold one byte before its first update.
createCipherivPrimed(algo, keyBytes) ==
  [algo |-> algo, key |-> keyBytes, pending |-> << 0 >>]

createCipheriv(algo, keyBytes) ==
  [algo |-> algo, key |-> keyBytes, pending |-> << >>]

RECURSIVE AesBlocks(_, _)
AesBlocks(keyBytes, data) ==
  IF Len(data) < BLOCK_SIZE THEN << >>
  ELSE AesBlock(keyBytes, SubSeq(data, 1, BLOCK_SIZE))
         \o AesBlocks(keyBytes, SubSeq(data, BLOCK_SIZE + 1, Len(data)))

\* aesCipher.update(data) of a handle that would keep the last byte it was
\* given: what determinism under reuse (C3) excludes.
aesUpdateKeeping(cipher, data) ==
  [out |-> AesBlocks(cipher.key, SubSeq(cipher.pending \o data, 1, BLOCK_SIZE)),
   cipher |-> [cipher EXCEPT !.pending = SubSeq(data, Len(data), Len(data))],
   given |-> data, updates |-> 1]

\* aesCipher.update(data): [out, cipher], the bytes returned and the handle
\* after the call; given and updates say what the one call was given.
aesUpdate(cipher, data) ==
  LET all == cipher.pending \o data
      whole == Len(all) - (Len(all) % BLOCK_SIZE)
  IN [out |-> AesBlocks(cipher.key, SubSeq(all, 1, whole)),
      cipher |-> [cipher EXCEPT !.pending = SubSeq(all, whole + 1, Len(all))],
      given |-> data, updates |-> 1]

(***************************************************************************)
(* new FF3Cipher(key, tweak, radix): [err, obj].  err is "" and obj the    *)
(* object when the constructor returns, and err names what it throws       *)
(* otherwise ("InvalidKeyLength": line 98, "InvalidRadix": line 104,       *)
(* "InvalidDomainBounds": line 110).  minLen and maxLen are Numbers the    *)
(* code computes before its checks; they are computed here for the         *)
(* radices that pass the radix check, the only ones whose object exists.   *)
(***************************************************************************)
NoObject == [radix |-> 0]

\* The switch without its default case (C7).
AlgoOfNoDefault(keyLen) ==
  CASE keyLen = 24 -> "aes-192-ecb"
    [] keyLen = 32 -> "aes-256-ecb"
    [] OTHER -> "aes-128-ecb"

AlgoOf(keyLen) ==
  CASE keyLen = 16 -> "aes-128-ecb"
    [] keyLen = 24 -> "aes-192-ecb"
    [] keyLen = 32 -> "aes-256-ecb"
    [] OTHER -> "unknown"

\* The radix check with radix >= MAX_RADIX for radix > MAX_RADIX (C8).
radixOutOfRangeMaxExcluded(radix) == radix < 2 \/ radix >= MAX_RADIX

\* if ((radix < 2) || (radix > MAX_RADIX))
radixOutOfRange(radix) == radix < 2 \/ radix > MAX_RADIX

\* Lines 78-124 once the key has decoded to keyBytes and the tweak to
\* tweakBytes, minLen and maxLen being the two bounds computed.
FF3CipherOf(keyBytes, tweakBytes, radix, minLen, maxLen) ==
  IF AlgoOf(Len(keyBytes)) = "unknown"
    THEN [err |-> "InvalidKeyLength", obj |-> NoObject]
  ELSE IF radixOutOfRange(radix)
    THEN [err |-> "InvalidRadix", obj |-> NoObject]
  ELSE IF minLen < 2 \/ maxLen < minLen
    THEN [err |-> "InvalidDomainBounds", obj |-> NoObject]
  ELSE [err |-> "",
        obj |-> [radix |-> radix,
                 minLen |-> minLen,
                 maxLen |-> maxLen,
                 tweakBytes |-> IF Len(tweakBytes) = TWEAK_LEN_NEW
                                  THEN calculateTweak64_FF3_1(tweakBytes)
                                  ELSE tweakBytes,
                 aesCipher |-> createCipheriv(AlgoOf(Len(keyBytes)), keyBytes)]]

\* The two bounds at every radix that passes the radix check (each is computed
\* once here, and looked up at each construction).
MinLens == [radix \in 2..MAX_RADIX |-> MinLenOf(radix)]
MaxLens == [radix \in 2..MAX_RADIX |-> MaxLenOf(radix)]

FF3Cipher(key, tweak, radix) ==
  FF3CipherOf(reverseBytes(BufferFromHex(key)), BufferFromHex(tweak), radix,
              MinLens[radix], MaxLens[radix])

(***************************************************************************)
(* The round function and the two Feistel loops.                           *)
(***************************************************************************)
\* FF3Cipher.mod(n, m): ((n % m) + m) % m
\* The remainder of JavaScript's % alone: the sign of n.
modTruncating(n, m) == BigRem(n, m)

mod(n, m) == BigRem(BigAdd(BigRem(n, m), m), m)

\* P with the round index XORed into its first byte, not its fourth.
PHeadXorFirst(i, W) ==
  << BitXor(ByteAt(W, 0), i), ByteAt(W, 1), ByteAt(W, 2), ByteAt(W, 3) >>
    \o [j \in 1..(BLOCK_SIZE - 4) |-> 0]

\* P after lines 132-140: W[0], W[1], W[2], W[3] ^ i and twelve zero bytes.
PHead(i, W) ==
  << ByteAt(W, 0), ByteAt(W, 1), ByteAt(W, 2), BitXor(ByteAt(W, 3), i) >>
    \o [j \in 1..(BLOCK_SIZE - 4) |-> 0]

\* P.set(bBytes, BLOCK_SIZE-bBytes.length): [ok, P]; an offset below 0 throws
\* a RangeError.
PSet(P, bBytes) ==
  IF BLOCK_SIZE - Len(bBytes) < 0 THEN [ok |-> FALSE, P |-> P]
  ELSE [ok |-> TRUE,
        P |-> [j \in 1..BLOCK_SIZE |->
                 IF j > BLOCK_SIZE - Len(bBytes)
                   THEN bBytes[j - (BLOCK_SIZE - Len(bBytes))]
                   ELSE P[j]]]

\* Lines 145-150 on P, big being what convertToBigInt gave.
PWithBig(P, big) ==
  IF ~big.ok THEN [ok |-> FALSE, P |-> P]
  ELSE PSet(P, bigToUint8Array(big.val))

\* FF3Cipher.calculateP(i, radix, W, B): [ok, P]; ok = FALSE when it throws a
\* RangeError (BigInt(NaN) in convertToBigInt, or P.set with an offset below 0).
calculateP(i, radix, W, B) ==
  PWithBig(PHead(i, W), convertToBigInt(reverseString(B), radix))

\* C = C + "00000000".substring(0, m - C.length);
ZeroPad == << "0", "0", "0", "0", "0", "0", "0", "0" >>
PadC(C, m) == C \o substring(ZeroPad, 0, m - Len(C))

\* C = c.toString(radix); C = reverseString(C); and the padding.
RenderC(c, radix, m) == PadC(reverseString(BigToString(c, radix)), m)

\* The state of a call that passed its checks: its arguments (extra is what
\* it was given after the message), the split of the message and of the
\* tweak, the two moduli, the first round index and the passes made so far.
SplitState(obj, op, text, extra, first) ==
  LET n == Len(text)
      u == (n + 1) \div 2
      v == n - u
  IN [pc |-> "round", op |-> op, input |-> text, extra |-> extra,
      passes |-> << >>, u |-> u, v |-> v,
      A |-> substring(text, 0, u),
      B |-> substring(text, u, n),
      Tl |-> slice(obj.tweakBytes, 0, HALF_TWEAK_LEN),
      Tr |-> slice(obj.tweakBytes, HALF_TWEAK_LEN, TWEAK_LEN),
      modU |-> BigPow(BigOfInt(obj.radix), u),
      modV |-> BigPow(BigOfInt(obj.radix), v),
      i |-> first]

\* The checks with n >= maxLen for n > maxLen (C4), and without the check of
\* the tweak's length (C5).
CallCheckMaxExcluded(obj, text) ==
  IF Len(text) < obj.minLen \/ Len(text) >= obj.maxLen
    THEN "InvalidMessageLength"
  ELSE IF Len(obj.tweakBytes) # TWEAK_LEN /\ Len(obj.tweakBytes) # TWEAK_LEN_NEW
    THEN "InvalidTweakLength"
  ELSE ""

CallCheckNoTweak(obj, text) ==
  IF Len(text) < obj.minLen \/ Len(text) > obj.maxLen
    THEN "InvalidMessageLength"
  ELSE ""

\* What encrypt and decrypt check before the loop: "" when they go on.
CallCheck(obj, text) ==
  IF Len(text) < obj.minLen \/ Len(text) > obj.maxLen
    THEN "InvalidMessageLength"
  ELSE IF Len(obj.tweakBytes) # TWEAK_LEN /\ Len(obj.tweakBytes) # TWEAK_LEN_NEW
    THEN "InvalidTweakLength"
  ELSE ""

\* The tweak halves taken the other way round: Tl on even passes.
RoundWSwapped(st) == IF st.i % 2 = 0 THEN st.Tl ELSE st.Tr

\* m, W and the modulus of the pass of a loop at call state st.
RoundM(st) == IF st.i % 2 = 0 THEN st.u ELSE st.v
RoundW(st) == IF st.i % 2 = 0 THEN st.Tr ELSE st.Tl
RoundMod(st) == IF st.i % 2 = 0 THEN st.modU ELSE st.modV

\* S.reverse(); let y = BigInt('0x' + S.toString('hex'));
RoundY(S) == BigIntOfHex(BufferToHex(reverseBytes(S)))

\* What a pass of a loop did with the cipher: the index of the pass, the half
\* it gave to calculateP, the block P it got, the calls of aesCipher.update it
\* made, and the bytes it gave to update and got from it (none when it threw
\* before line 244).
NoUpdate == [out |-> << >>, given |-> << >>, updates |-> 0]
PassOf(st, half, P, upd) ==
  [i |-> st.i, half |-> half, P |-> P, updates |-> upd.updates,
   given |-> upd.given, S |-> upd.out]

\* A pass that went on to lines 259-265 (369-375): n is c + y (c - y), the
\* value given to FF3Cipher.mod, and c the value it returned.
Reduced(pass, n, c) ==
  [i |-> pass.i, half |-> pass.half, P |-> pass.P, updates |-> pass.updates,
   given |-> pass.given, S |-> pass.S, n |-> n, c |-> c]

\* A pass of a loop that throws: A and B as they were.
Thrown(err, st, aesCipher, pass) ==
  [err |-> err, A |-> st.A, B |-> st.B, aesCipher |-> aesCipher, pass |-> pass]

\* One pass of the loop of encrypt (lines 225-278) from call state st on
\* object obj: [err, A, B, aesCipher].  err is "RangeError" when calculateP
\* throws (before the cipher is used), "InvalidDigitForRadix" when the
\* conversion of A throws (after it), "" otherwise; pass is what the pass did
\* with the cipher.  encryptWithP is the pass from line 240 on, P being what
\* calculateP gave; encryptWithS is the pass from line 250 on, upd being what
\* aesCipher.update gave and cA what convertToBigInt(reverseString(A), radix)
\* gave; encryptWithC is the pass from line 267 on, n being c + y and c what
\* FF3Cipher.mod returned.
encryptWithC(obj, st, P, upd, n, c) ==
  [err |-> "",
   A |-> st.B,
   B |-> RenderC(c, obj.radix, RoundM(st)),
   aesCipher |-> upd.cipher,
   pass |-> Reduced(PassOf(st, st.B, P.P, upd), n, c)]

encryptWithS(obj, st, P, upd, cA) ==
  IF ~cA.ok
    THEN Thrown("InvalidDigitForRadix", st, upd.cipher, PassOf(st, st.B, P.P, upd))
  ELSE encryptWithC(obj, st, P, upd, BigAdd(cA.val, RoundY(upd.out)),
                    mod(BigAdd(cA.val, RoundY(upd.out)), RoundMod(st)))

encryptWithP(obj, st, P) ==
  IF ~P.ok
    THEN Thrown("RangeError", st, obj.aesCipher, PassOf(st, st.B, << >>, NoUpdate))
  ELSE encryptWithS(obj, st, P, aesUpdate(obj.aesCipher, reverseBytes(P.P)),
                    convertToBigInt(reverseString(st.A), obj.radix))

encryptRound(obj, st) ==
  encryptWithP(obj, st, calculateP(st.i, obj.radix, RoundW(st), st.B))

\* One pass of the loop of decrypt (lines 336-388), in the same steps.
decryptWithC(obj, st, P, upd, n, c) ==
  [err |-> "",
   A |-> RenderC(c, obj.radix, RoundM(st)),
   B |-> st.A,
   aesCipher |-> upd.cipher,
   pass |-> Reduced(PassOf(st, st.A, P.P, upd), n, c)]

decryptWithS(obj, st, P, upd, cB) ==
  IF ~cB.ok
    THEN Thrown("InvalidDigitForRadix", st, upd.cipher, PassOf(st, st.A, P.P, upd))
  ELSE decryptWithC(obj, st, P, upd, BigSub(cB.val, RoundY(upd.out)),
                    mod(BigSub(cB.val, RoundY(upd.out)), RoundMod(st)))

decryptWithP(obj, st, P) ==
  IF ~P.ok
    THEN Thrown("RangeError", st, obj.aesCipher, PassOf(st, st.A, << >>, NoUpdate))
  ELSE decryptWithS(obj, st, P, aesUpdate(obj.aesCipher, reverseBytes(P.P)),
                    convertToBigInt(reverseString(st.B), obj.radix))

decryptRound(obj, st) ==
  decryptWithP(obj, st, calculateP(st.i, obj.radix, RoundW(st), st.A))

\* Tl and Tr are Buffer.slice views (lines 207-208, 322-323): they share the
\* bytes of this.tweakBytes, so what a pass writes to W it writes to the
\* object.  A pass reads W in calculateP (lines 138-141) and writes P only:
\* WAfterPass is W when the pass is over, WAfterXorInPlace what it would be
\* had line 141 been W[3] ^= i.
WAfterXorInPlace(i, W) == [W EXCEPT ![HALF_TWEAK_LEN] = BitXor(W[HALF_TWEAK_LEN], i)]

WAfterPass(i, W) == W

\* this.tweakBytes after the pass at call state st.
tweakBytesAfter(obj, st) ==
  IF st.i % 2 = 0
    THEN slice(obj.tweakBytes, 0, HALF_TWEAK_LEN) \o WAfterPass(st.i, RoundW(st))
    ELSE WAfterPass(st.i, RoundW(st))
           \o slice(obj.tweakBytes, HALF_TWEAK_LEN, Len(obj.tweakBytes))

\* encrypt(plaintext) and decrypt(ciphertext) as functions: [err, out] of a
\* call on object obj, the passes made one after the other.
RECURSIVE encryptFrom(_, _), decryptFrom(_, _)
encryptNext(obj, st, r) ==
  IF r.err # "" THEN [err |-> r.err, out |-> << >>]
  ELSE encryptFrom([obj EXCEPT !.aesCipher = r.aesCipher,
                               !.tweakBytes = tweakBytesAfter(obj, st)],
                   [st EXCEPT !.A = r.A, !.B = r.B, !.i = st.i + 1])

encryptFrom(obj, st) ==
  IF st.i < NUM_ROUNDS THEN encryptNext(obj, st, encryptRound(obj, st))
  ELSE [err |-> "", out |-> st.A \o st.B]

decryptNext(obj, st, r) ==
  IF r.err # "" THEN [err |-> r.err, out |-> << >>]
  ELSE decryptFrom([obj EXCEPT !.aesCipher = r.aesCipher,
                               !.tweakBytes = tweakBytesAfter(obj, st)],
                   [st EXCEPT !.A = r.A, !.B = r.B, !.i = st.i - 1])

decryptFrom(obj, st) ==
  IF st.i >= 0 THEN decryptNext(obj, st, decryptRound(obj, st))
  ELSE [err |-> "", out |-> st.A \o st.B]

\* What a call is given after the message when it is given nothing.
NoArg == << "undefined" >>

encrypt(obj, plaintext) ==
  IF CallCheck(obj, plaintext) # ""
    THEN [err |-> CallCheck(obj, plaintext), out |-> << >>]
  ELSE encryptFrom(obj, SplitState(obj, "encrypt", plaintext, NoArg, 0))

decrypt(obj, ciphertext) ==
  IF CallCheck(obj, ciphertext) # ""
    THEN [err |-> CallCheck(obj, ciphertext), out |-> << >>]
  ELSE decryptFrom(obj, SplitState(obj, "decrypt", ciphertext, NoArg, NUM_ROUNDS - 1))

(***************************************************************************)
(* Inputs.  The keys, tweaks and radices the constructor is given and the  *)
(* messages encrypt and decrypt are given are drawn from these sets.       *)
(***************************************************************************)
KeyZero128 ==
  << "0", "0", "0", "0", "0", "0", "0", "0", "0", "0", "0", "0", "0", "0", "0", "0",
     "0", "0", "0", "0", "0", "0", "0", "0", "0", "0", "0", "0", "0", "0", "0", "0" >>
Key128 ==
  << "E", "F", "4", "3", "5", "9", "D", "8", "D", "5", "8", "0", "A", "A", "4", "F",
     "7", "F", "0", "3", "6", "D", "6", "F", "0", "4", "F", "C", "6", "A", "9", "4" >>
Key192 ==
  << "E", "F", "4", "3", "5", "9", "D", "8", "D", "5", "8", "0", "A", "A", "4", "F",
     "7", "F", "0", "3", "6", "D", "6", "F", "0", "4", "F", "C", "6", "A", "9", "4",
     "2", "B", "7", "E", "1", "5", "1", "6", "2", "8", "A", "E", "D", "2", "A", "6" >>
Key256 ==
  << "E", "F", "4", "3", "5", "9", "D", "8", "D", "5", "8", "0", "A", "A", "4", "F",
     "7", "F", "0", "3", "6", "D", "6", "F", "0", "4", "F", "C", "6", "A", "9", "4",
     "2", "B", "7", "E", "1", "5", "1", "6", "2", "8", "A", "E", "D", "2", "A", "6",
     "A", "B", "F", "7", "1", "5", "8", "8", "0", "9", "C", "F", "4", "F", "3", "C" >>

\* Keys that decode to 0, 15, 17, 20 and 33 bytes.
BadKeys ==
  { << >>,
    SubSeq(Key128, 1, 30),
    Key128 \o << "0", "1" >>,
    SubSeq(Key192, 1, 40),
    Key256 \o << "f", "f" >> }

Keys == { KeyZero128, Key128, Key192, Key256 } \cup BadKeys

\* Tweaks of 8 bytes (the first is the tweak of NIST sample #1).
Tweak64 == << "D", "8", "E", "7", "9", "2", "0", "A", "F", "A", "3", "3", "0", "A", "7", "3" >>
Tweaks64 ==
  { Tweak64,
    << "D", "8", "E", "7", "9", "2", "0", "0", "F", "A", "3", "3", "0", "A", "A", "0" >>,
    << "0", "0", "0", "0", "0", "0", "0", "f", "0", "0", "0", "0", "0", "0", "f", "f" >> }

\* Tweaks of 7 bytes: Tweak56 (the tweak of test testFF3_1) with its byte 3
\* and its byte 6 replaced by each of a few bytes.
Tweak56 == << "D", "8", "E", "7", "9", "2", "0", "A", "F", "A", "3", "3", "0", "A" >>
NibblePairs ==
  { << "0", "0" >>, << "0", "A" >>, << "A", "0" >>, << "0", "B" >>,
    << "1", "A" >>, << "F", "f" >> }
Tweaks56 ==
  { [Tweak56 EXCEPT ![7] = p[1], ![8] = p[2], ![13] = q[1], ![14] = q[2]] :
      p \in NibblePairs, q \in { << "0", "A" >>, << "A", "0" >> } }

\* Tweaks that decode to 0, 5, 6 and 9 bytes.
Tweak40 == SubSeq(Tweak64, 1, 10)
BadTweaks ==
  { << >>, Tweak40, SubSeq(Tweak64, 1, 12), Tweak64 \o << "0", "1" >> }

Tweaks == Tweaks64 \cup Tweaks56 \cup BadTweaks

\* The radices given to the constructor: MAX_RADIX and two above, down to 0.
RadixSlack == 2
Radixes == 0..(MAX_RADIX + RadixSlack)

\* What the calls of the full machine are made on.
CallKeys == { KeyZero128, Key128 }
CallTweaks == { Tweak64, Tweak56, Tweak40 }
CallRadixes == { 10, MAX_RADIX }

\* Messages: n zeros, and the digits 0, 1, 2, ... of the radix in turn.
Zeros(n) == [k \in 1..n |-> "0"]
Ramp(radix, n) == [k \in 1..n |-> Alphabet[((k - 1) % radix) + 1]]

\* A length in the middle of every radix's range whose halves have more than
\* nine digits.
MidLen == 19

\* A message with the character at a 1-based position replaced.
WithChar(text, pos, ch) == [text EXCEPT ![pos] = ch]

\* The messages a first call is given on object obj: zeros of the lengths at
\* and around both ends of the range, zeros and a ramp in the middle, and a
\* ramp of the least length with one character that is no digit of the radix
\* ("?" at the start and the end of each half) or an upper-case letter.
FreshInputs(obj) ==
  LET lo == obj.minLen
      u == (lo + 1) \div 2
  IN { Zeros(n) : n \in { lo - 1, lo, MidLen, obj.maxLen, obj.maxLen + 1 } }
       \cup { Ramp(obj.radix, lo), Ramp(obj.radix, MidLen) }
       \cup { WithChar(Ramp(obj.radix, lo), pos, "?") : pos \in { 1, u, u + 1, lo } }
       \cup { WithChar(Ramp(obj.radix, lo), 1, "A") }

(***************************************************************************)
(* The state machine.                                                      *)
(*   made  the arguments and the outcome of the last construction          *)
(*   ctx   the FF3Cipher object (NoObject when there is none)              *)
(*   call  the running encrypt or decrypt: its locals and its place        *)
(*   hist  the calls that ended: operation, arguments, error or output,    *)
(*         and the passes of the loop they made                            *)
(*   parked  a second object of the program, with the arguments it was     *)
(*         made from and the calls that ended on it: made, ctx and hist    *)
(*         are those of the object the program is using                    *)
(***************************************************************************)
VARIABLES made, ctx, call, hist, parked

vars == << made, ctx, call, hist, parked >>

\* The calls made in one behaviour.
MaxCalls == 2

NoMade == [err |-> "none"]
Idle == [pc |-> "idle"]

NoParked == [made |-> NoMade, ctx |-> NoObject, hist |-> << >>]

Init ==
  /\ made = NoMade
  /\ ctx = NoObject
  /\ call = Idle
  /\ hist = << >>
  /\ parked = NoParked

\* A construction that would put the cipher handle where every object of the
\* program uses it (a variable of the module, not a field of this).
ConstructedSharedHandle(key, tweak, radix, r) ==
  /\ made' = [key |-> key, tweak |-> tweak, radix |-> radix, err |-> r.err]
  /\ ctx' = r.obj
  /\ parked' = IF r.err = "" /\ parked.ctx # NoObject
                THEN [parked EXCEPT !.ctx.aesCipher = r.obj.aesCipher]
                ELSE parked

\* What a construction whose outcome is r leaves: it writes the fields of
\* this, and nothing of another object.
Constructed(key, tweak, radix, r) ==
  /\ made' = [key |-> key, tweak |-> tweak, radix |-> radix, err |-> r.err]
  /\ ctx' = r.obj
  /\ parked' = parked

\* new FF3Cipher(key, tweak, radix), between calls.
Construct(key, tweak, radix) ==
  /\ call.pc = "idle"
  /\ Constructed(key, tweak, radix, FF3Cipher(key, tweak, radix))
  /\ UNCHANGED << call, hist >>

\* A behaviour constructs with one triple of arguments, any number of times:
\* each time the object is a new one.
ConstructFirst(keys, tweaks, radixes) ==
  /\ made = NoMade
  /\ \E key \in keys, tweak \in tweaks, radix \in radixes :
       Construct(key, tweak, radix)

ConstructAgain ==
  /\ made # NoMade
  /\ Construct(made.key, made.tweak, made.radix)

\* The messages a call may be given: any fresh input first, and afterwards the
\* inputs and the outputs of the earlier calls.
Texts ==
  IF ctx = NoObject THEN { }
  ELSE IF hist = << >> THEN FreshInputs(ctx)
  ELSE { hist[k].input : k \in 1..Len(hist) }
         \cup { hist[k].out : k \in { j \in 1..Len(hist) : hist[j].err = "" } }

\* hist when a call has ended; seq is its place among the calls that ended on
\* the two objects.
Ended(op, text, extra, err, out, passes) ==
  Append(hist, [op |-> op, input |-> text, extra |-> extra, err |-> err,
                out |-> out, passes |-> passes,
                seq |-> Len(hist) + Len(parked.hist) + 1])

\* The checks of encrypt / decrypt and the split (lines 176-223, 290-334).
\* The functions declare one parameter: what a call is given after the
\* message (extra) is given to no statement of theirs.
Start(op, text, extra, first) ==
  /\ ctx # NoObject
  /\ call.pc = "idle"
  /\ Len(hist) < MaxCalls
  /\ IF CallCheck(ctx, text) # ""
       THEN /\ hist' = Ended(op, text, extra, CallCheck(ctx, text), << >>, << >>)
            /\ call' = Idle
       ELSE /\ call' = SplitState(ctx, op, text, extra, first)
            /\ hist' = hist
  /\ UNCHANGED << made, ctx, parked >>

\* The first pass of decrypt one index too high.
DecryptStartAtNumRounds(ciphertext, extra) ==
  Start("decrypt", ciphertext, extra, NUM_ROUNDS)

EncryptStart(plaintext, extra) == Start("encrypt", plaintext, extra, 0)

DecryptStart(ciphertext, extra) == Start("decrypt", ciphertext, extra, NUM_ROUNDS - 1)

\* What a pass of a loop leaves: the call ended by a throw, or its locals
\* replaced and the round index moved by step.
AfterRound(r, step) ==
  /\ ctx' = [ctx EXCEPT !.aesCipher = r.aesCipher,
                        !.tweakBytes = tweakBytesAfter(ctx, call)]
  /\ IF r.err # ""
       THEN /\ hist' = Ended(call.op, call.input, call.extra, r.err, << >>,
                             Append(call.passes, r.pass))
            /\ call' = Idle
       ELSE /\ call' = [call EXCEPT !.A = r.A, !.B = r.B, !.i = call.i + step,
                                    !.passes = Append(call.passes, r.pass)]
            /\ hist' = hist
  /\ UNCHANGED << made, parked >>

\* for (let i = 0; i < NUM_ROUNDS; ++ i) { ... }
EncryptRound ==
  /\ call.pc = "round" /\ call.op = "encrypt"
  /\ call.i < NUM_ROUNDS
  /\ AfterRound(encryptRound(ctx, call), 1)

\* for (let i = (NUM_ROUNDS-1); i >= 0; --i) { ... }
DecryptRound ==
  /\ call.pc = "round" /\ call.op = "decrypt"
  /\ call.i >= 0
  /\ AfterRound(decryptRound(ctx, call), -1)

\* return A+B;
EncryptReturn ==
  /\ call.pc = "round" /\ call.op = "encrypt"
  /\ ~(call.i < NUM_ROUNDS)
  /\ hist' = Ended("encrypt", call.input, call.extra, "", call.A \o call.B,
                   call.passes)
  /\ call' = Idle
  /\ UNCHANGED << made, ctx, parked >>

DecryptReturn ==
  /\ call.pc = "round" /\ call.op = "decrypt"
  /\ ~(call.i >= 0)
  /\ hist' = Ended("decrypt", call.input, call.extra, "", call.A \o call.B,
                   call.passes)
  /\ call' = Idle
  /\ UNCHANGED << made, ctx, parked >>

Next ==
  \/ ConstructFirst(CallKeys, CallTweaks, CallRadixes)
  \/ ConstructAgain
  \/ \E text \in Texts : EncryptStart(text, NoArg)
  \/ \E text \in Texts : DecryptStart(text, NoArg)
  \/ EncryptRound
  \/ DecryptRound
  \/ EncryptReturn
  \/ DecryptReturn

Spec == Init /\ [][Next]_vars

\* The constructor alone, on every key, tweak and radix of the input sets.
NextCtor ==
  \/ ConstructFirst(Keys, Tweaks, Radixes)
  \/ ConstructAgain

SpecCtor == Init /\ [][NextCtor]_vars

\* Calls that are given a tweak after the message, c.encrypt(text, tweak), on
\* objects made from the key and the tweaks of the NIST samples.  TweakB64 is
\* the tweak of sample #2.
TweakB64 == << "9", "A", "7", "6", "8", "A", "9", "2", "F", "6", "0", "E", "1", "2", "D", "8" >>
ExtraArgs == { NoArg, Tweak64, TweakB64, Tweak56 }
ExtraTexts ==
  IF ctx = NoObject THEN { }
  ELSE { Ramp(ctx.radix, ctx.minLen), Ramp(ctx.radix, MidLen) }

NextExtra ==
  \/ ConstructFirst({ Key128 }, { Tweak64, Tweak56 }, { 10 })
  \/ ConstructAgain
  \/ \E text \in ExtraTexts, extra \in ExtraArgs : EncryptStart(text, extra)
  \/ \E text \in ExtraTexts, extra \in ExtraArgs : DecryptStart(text, extra)
  \/ EncryptRound
  \/ DecryptRound
  \/ EncryptReturn
  \/ DecryptReturn

SpecExtra == Init /\ [][NextExtra]_vars

\* Two objects.  The program is single-threaded and encrypt and decrypt are
\* synchronous: between two calls it may go on with its other object, which
\* it constructs and calls in the same way.
Switch ==
  /\ call.pc = "idle"
  /\ made' = parked.made
  /\ ctx' = parked.ctx
  /\ hist' = parked.hist
  /\ parked' = [made |-> made, ctx |-> ctx, hist |-> hist]
  /\ call' = call

PairKeys == { Key128, Key192 }
PairTweaks == { Tweak56 }
PairRadixes == { 10 }
PairTexts == { Ramp(radix, MinLens[radix]) : radix \in PairRadixes }

NextPair ==
  \/ ConstructFirst(PairKeys, PairTweaks, PairRadixes)
  \/ ConstructAgain
  \/ Switch
  \/ \E text \in PairTexts : EncryptStart(text, NoArg)
  \/ \E text \in PairTexts : DecryptStart(text, NoArg)
  \/ EncryptRound
  \/ DecryptRound
  \/ EncryptReturn
  \/ DecryptReturn

SpecPair == Init /\ [][NextPair]_vars

\* The conversion of a string of digits alone.  convertToBigInt is a function
\* of its two arguments; the strings are of the lengths around the chunk size
\* and of the largest length an object of the radix takes, with the digits
\* in turn, with the largest digit everywhere, and with 1 before zeros.
CodecLens(radix) ==
  { n \in { 1, size - 1, size, size + 1, 2 * size, 2 * size + 1,
            MaxLens[radix] - 1, MaxLens[radix] } : n <= MaxLens[radix] }

TopDigits(radix, n) == [k \in 1..n |-> Alphabet[radix]]

CodecTexts(radix) ==
  UNION { { Ramp(radix, n), TopDigits(radix, n), WithChar(Zeros(n), 1, "1") } :
          n \in CodecLens(radix) }

Convert(value, radix) ==
  /\ call.pc = "idle"
  /\ call' = [pc |-> "converted", value |-> value, radix |-> radix,
              parts |-> parts(value), big |-> convertToBigInt(value, radix)]
  /\ UNCHANGED << made, ctx, hist, parked >>

ConvertReturn ==
  /\ call.pc = "converted"
  /\ call' = Idle
  /\ UNCHANGED << made, ctx, hist, parked >>

NextCodec ==
  \/ \E radix \in 2..MAX_RADIX : \E value \in CodecTexts(radix) :
       Convert(value, radix)
  \/ ConvertReturn

SpecCodec == Init /\ [][NextCodec]_vars

\* The static functions called alone, as the tests call them (FF3Cipher.mod
\* in test 'radix', FF3Cipher.calculateP in test 'calculateP'), by a program
\* that then makes an object and calls it.  They take no object: what they
\* return before the object is made is what they return after.
\* The moduli: 1, 2, 7, that of the test, and powers of the radices 2, 10 and
\* 36 up to 2^96.
ModMs ==
  { BigOfInt(1), BigOfInt(2), BigOfInt(7), BigOfInt(1000000000),
    BigPow(BigOfInt(10), MidLen), BigPow(BigOfInt(MAX_RADIX), MidLen - 1),
    BigPow(BigOfInt(2), 96) }

\* 706456850n - 316291629567414359958402343312719325709n, the value the test
\* gives to mod.
TestN ==
  BigSub(BigOfInt(706456850),
         convertToBigInt(<< "3", "1", "6", "2", "9", "1", "6", "2", "9", "5", "6", "7", "4", "1", "4", "3", "5", "9", "9", "5", "8", "4", "0", "2", "3", "4", "3", "3", "1", "2", "7", "1", "9", "3", "2", "5", "7", "0", "9" >>, 10).val)

\* The values reduced by m: 0, the values about m and 2m, a value of 128 bits
\* (what y is at most), each with both signs, and that of the test.
ModNs(m) ==
  { TestN }
    \cup UNION { { x, BigSub(BigZero, x) } :
                 x \in { BigZero, BigOfInt(1), BigSub(m, BigOfInt(1)), m,
                         BigAdd(m, BigOfInt(1)), BigAdd(m, m),
                         BigAdd(BigAdd(m, m), BigOfInt(1)),
                         BigSub(BigPow(BigOfInt(2), 128), BigOfInt(1)) } }

ModCall(n, m) ==
  /\ call.pc = "idle" /\ made = NoMade
  /\ call' = [pc |-> "reduced", n |-> n, m |-> m, r |-> mod(n, m)]
  /\ UNCHANGED << made, ctx, hist, parked >>

\* The halves given to calculateP: of the radix's digits in turn and of its
\* largest digit, of 1 digit, of the length of the longer half of the longest
\* message of the radix, of one less and of one more; the largest digit with
\* "-" as the last character, of the length of the longer half of the longest
\* message; and that of the test.
HalfMax(radix) == (MaxLens[radix] + 1) \div 2

StaticHalves(radix) ==
  UNION { { Ramp(radix, n), TopDigits(radix, n) } :
          n \in { 1, HalfMax(radix) - 1, HalfMax(radix), HalfMax(radix) + 1 } }
    \cup { WithChar(TopDigits(radix, HalfMax(radix)), HalfMax(radix), "-") }
    \cup (IF radix = 10 THEN { << "5", "6", "7", "8", "9", "0", "0", "0", "0" >> } ELSE { })

\* W of the test: FA330A73.
StaticW == << 250, 51, 10, 115 >>

CalculatePCall(i, radix, W, B) ==
  /\ call.pc = "idle" /\ made = NoMade
  /\ call' = [pc |-> "blocked", i |-> i, radix |-> radix, W |-> W, B |-> B,
              P |-> calculateP(i, radix, W, B)]
  /\ UNCHANGED << made, ctx, hist, parked >>

StaticReturn ==
  /\ call.pc \in { "reduced", "blocked" }
  /\ call' = Idle
  /\ UNCHANGED << made, ctx, hist, parked >>

\* The messages given to the object: the digits in turn, of the least
\* length, and the largest digit, of the largest length, as it is and with
\* "-" as the last character.
StaticRadixes == { 2, 10, MAX_RADIX }

StaticTexts ==
  IF ctx = NoObject THEN { }
  ELSE { Ramp(ctx.radix, ctx.minLen),
         TopDigits(ctx.radix, ctx.maxLen),
         WithChar(TopDigits(ctx.radix, ctx.maxLen), ctx.maxLen, "-") }

NextStatic ==
  \/ \E m \in ModMs : \E n \in ModNs(m) : ModCall(n, m)
  \/ \E radix \in 2..MAX_RADIX : \E B \in StaticHalves(radix) :
       \E i \in { 0, NUM_ROUNDS - 1 } : CalculatePCall(i, radix, StaticW, B)
  \/ StaticReturn
  \/ ConstructFirst({ Key128 }, { Tweak56 }, StaticRadixes)
  \/ ConstructAgain
  \/ \E text \in StaticTexts : EncryptStart(text, NoArg)
  \/ \E text \in StaticTexts : DecryptStart(text, NoArg)
  \/ EncryptRound
  \/ DecryptRound
  \/ EncryptReturn
  \/ DecryptReturn

SpecStatic == Init /\ [][NextStatic]_vars

(***************************************************************************)
(* The claims.  A context is the object a construction returned; a call is *)
(* an entry of hist, made on the context of its behaviour.                 *)
(***************************************************************************)
\* ch is one of the first radix symbols of the alphabet 0-9a-z.
IsDigitOf(ch, radix) == \E d \in 1..radix : Alphabet[d] = ch

ValidDigits(text, radix) == \A k \in 1..Len(text) : IsDigitOf(text[k], radix)

\* The keys and the tweaks of the input sets are strings of hexadecimal
\* digits: one decodes to half as many bytes as it has characters.
KeyByteLen == Len(made.key) \div 2
TweakByteLen == Len(made.tweak) \div 2

\* The context was built from a valid key, a valid tweak and a valid radix.
ValidContext ==
  /\ made # NoMade
  /\ KeyByteLen \in { 16, 24, 32 }
  /\ TweakByteLen \in { 7, 8 }
  /\ made.radix \in 2..MAX_RADIX

InRange(text) == ctx.minLen <= Len(text) /\ Len(text) <= ctx.maxLen

Calls == 1..Len(hist)

\* C1: round trip.  On a context built from a valid key, tweak and radix, the
\* encryption of a string x of digits of the radix with minLen <= |x| <= maxLen
\* returns a string, and every decryption of that string returns x.
C1_RoundTrip ==
  ValidContext =>
    \A i \in Calls :
      (/\ hist[i].op = "encrypt"
       /\ ValidDigits(hist[i].input, made.radix)
       /\ InRange(hist[i].input))
      => /\ hist[i].err = ""
         /\ \A j \in Calls :
              (hist[j].op = "decrypt" /\ hist[j].input = hist[i].out)
              => (hist[j].err = "" /\ hist[j].out = hist[i].input)

\* C2: format preservation.  On a valid context, encrypt and decrypt of a
\* string x of digits of the radix with minLen <= |x| <= maxLen return a string
\* of exactly |x| characters, each a digit of the radix.
C2_FormatPreserved ==
  ValidContext =>
    \A k \in Calls :
      (ValidDigits(hist[k].input, made.radix) /\ InRange(hist[k].input))
      => /\ hist[k].err = ""
         /\ Len(hist[k].out) = Len(hist[k].input)
         /\ ValidDigits(hist[k].out, made.radix)

\* C3: determinism under reuse.  Two calls of the same operation with the same
\* input (the key, the tweak and the radix are those of the behaviour) end the
\* same way and return the same string, whatever calls, successful or failed,
\* and whatever constructions came between them.
C3_Deterministic ==
  \A i \in Calls : \A j \in Calls :
    (hist[i].op = hist[j].op /\ hist[i].input = hist[j].input)
    => (hist[i].err = hist[j].err /\ hist[i].out = hist[j].out)

\* Reached: the same operation ran twice on the same input, the second time
\* after the first had ended, and returned a string other than its input both
\* times.
C3_Witness ==
  /\ Len(hist) = 2
  /\ hist[1].op = hist[2].op
  /\ hist[1].input = hist[2].input
  /\ hist[1].err = ""
  /\ hist[2].err = ""
  /\ hist[2].out # hist[2].input

\* C4: message-length validation.  A call fails with InvalidMessageLength
\* exactly when the length n of its input is below minLen or above maxLen, and
\* a call that fails returns no output.
C4_MessageLength ==
  \A k \in Calls :
    /\ hist[k].err = "InvalidMessageLength"
         <=> (Len(hist[k].input) < ctx.minLen \/ Len(hist[k].input) > ctx.maxLen)
    /\ hist[k].err # "" => hist[k].out = << >>

\* Reached: a call with an input of maxLen + 1 characters failed with
\* InvalidMessageLength, on a valid context.
C4_Witness ==
  /\ ValidContext
  /\ \E k \in Calls :
       /\ Len(hist[k].input) = ctx.maxLen + 1
       /\ hist[k].err = "InvalidMessageLength"

C6_InvalidDigitRejected ==
  ValidContext =>
    \A k \in Calls :
      (InRange(hist[k].input) /\ ~ValidDigits(hist[k].input, made.radix))
      => /\ hist[k].err \in { "InvalidDigitForRadix", "RangeError" }
         /\ hist[k].out = << >>

\* C7: key-length validation.  A construction fails with InvalidKeyLength
\* exactly when its key decodes to a byte length other than 16, 24 or 32, and a
\* construction that fails returns no context; one that returns a context has
\* selected the 128-, 192- or 256-bit cipher for a key of 16, 24 or 32 bytes.
C7_KeyLength ==
  made # NoMade =>
    /\ made.err = "InvalidKeyLength" <=> KeyByteLen \notin { 16, 24, 32 }
    /\ made.err # "" => ctx = NoObject
    /\ made.err = "" =>
         /\ ctx # NoObject
         /\ Len(ctx.aesCipher.key) = KeyByteLen
         /\ KeyByteLen = 16 => ctx.aesCipher.algo = "aes-128-ecb"
         /\ KeyByteLen = 24 => ctx.aesCipher.algo = "aes-192-ecb"
         /\ KeyByteLen = 32 => ctx.aesCipher.algo = "aes-256-ecb"

\* Reached: a construction with a key of 20 bytes failed with InvalidKeyLength.
C7_Witness ==
  /\ made # NoMade
  /\ KeyByteLen = 20
  /\ made.err = "InvalidKeyLength"
  /\ ctx = NoObject

\* C8: radix validation.  A construction with a valid key fails with
\* InvalidRadix exactly when its radix is below 2 or above 36, and then returns
\* no context.
C8_Radix ==
  (made # NoMade /\ KeyByteLen \in { 16, 24, 32 }) =>
    /\ made.err = "InvalidRadix" <=> (made.radix < 2 \/ made.radix > 36)
    /\ made.err = "InvalidRadix" => ctx = NoObject

\* Reached: a construction with a valid key and radix 37 failed with
\* InvalidRadix.
C8_Witness ==
  /\ made # NoMade
  /\ KeyByteLen \in { 16, 24, 32 }
  /\ made.radix = 37
  /\ made.err = "InvalidRadix"
  /\ ctx = NoObject

\* radix^k as an integer of any size, and 2^96.
PowerOf(radix, k) == BigPow(BigOfInt(radix), k)
TwoTo96 == BigPow(BigOfInt(2), 96)

\* k is the least exponent with radix^k >= 1,000,000.
IsLeastPower(radix, k) ==
  /\ k >= 1
  /\ ~BigLess(PowerOf(radix, k), BigOfInt(1000000))
  /\ BigLess(PowerOf(radix, k - 1), BigOfInt(1000000))

\* k is the greatest exponent with radix^k <= 2^96.
IsGreatestPower(radix, k) ==
  /\ k >= 0
  /\ ~BigLess(TwoTo96, PowerOf(radix, k))
  /\ BigLess(TwoTo96, PowerOf(radix, k + 1))

\* C9: domain bounds.  A construction with a valid key and a radix in 2..36
\* returns a context whose minLen is the least k with radix^k >= 1,000,000 and
\* whose maxLen is twice the greatest k with radix^k <= 2^96: (6, 56) for radix
\* 10, (5, 40) for radix 26 and (4, 36) for radix 36.
C9_DomainBounds ==
  (made # NoMade /\ KeyByteLen \in { 16, 24, 32 } /\ made.radix \in 2..36) =>
    /\ made.err = ""
    /\ IsLeastPower(made.radix, ctx.minLen)
    /\ ctx.maxLen % 2 = 0
    /\ IsGreatestPower(made.radix, ctx.maxLen \div 2)
    /\ made.radix = 10 => (ctx.minLen = 6 /\ ctx.maxLen = 56)
    /\ made.radix = 26 => (ctx.minLen = 5 /\ ctx.maxLen = 40)
    /\ made.radix = 36 => (ctx.minLen = 4 /\ ctx.maxLen = 36)

\* Reached: a context of radix 26, with bounds 5 and 40.
C9_Witness ==
  /\ made # NoMade
  /\ made.err = ""
  /\ made.radix = 26
  /\ ctx.minLen = 5
  /\ ctx.maxLen = 40

\* The bytes the tweak of the construction decodes to.
TweakGiven == BufferFromHex(made.tweak)

\* C10: tweak expansion.  The context of a tweak t of 7 bytes stores the 8
\* bytes t0, t1, t2, t3 with its low nibble cleared, t4, t5, t6 and the low
\* nibble of t3 as a high nibble; no other tweak of 7 bytes expands to the
\* bytes stored; the context of a tweak of 8 bytes stores it unchanged.
C10_TweakExpansion ==
  (made # NoMade /\ made.err = "") =>
    /\ TweakByteLen = 7 =>
         /\ ctx.tweakBytes =
              << TweakGiven[1], TweakGiven[2], TweakGiven[3],
                 TweakGiven[4] - (TweakGiven[4] % 16),
                 TweakGiven[5], TweakGiven[6], TweakGiven[7],
                 (TweakGiven[4] % 16) * 16 >>
         /\ \A other \in Tweaks :
              (Len(other) = 14 /\ BufferFromHex(other) # TweakGiven)
              => calculateTweak64_FF3_1(BufferFromHex(other)) # ctx.tweakBytes
    /\ TweakByteLen = 8 => ctx.tweakBytes = TweakGiven

\* Reached: the context of a tweak of 7 bytes whose byte 3 has a low nibble
\* other than 0, which the last byte stored holds.
C10_Witness ==
  /\ made # NoMade
  /\ made.err = ""
  /\ TweakByteLen = 7
  /\ TweakGiven[4] % 16 # 0
  /\ ctx.tweakBytes[8] = (TweakGiven[4] % 16) * 16

\* What a call of operation op on input text returns or throws on object obj.
ResultOn(obj, op, text) ==
  IF op = "encrypt" THEN encrypt(obj, text) ELSE decrypt(obj, text)

\* C11: per-call tweak override.  A call that is given a tweak after the
\* message ends as the same call does on an object constructed from the key
\* and the radix of its object and the tweak it was given.
C11_TweakOverride ==
  \A k \in Calls :
    hist[k].extra # NoArg
    => [err |-> hist[k].err, out |-> hist[k].out]
         = ResultOn(FF3Cipher(made.key, hist[k].extra, made.radix).obj,
                    hist[k].op, hist[k].input)

\* The object the constructor returned for the arguments of the behaviour.
AsConstructed == FF3Cipher(made.key, made.tweak, made.radix).obj

\* The fields of an object that are no cipher handle.
FieldsOf(obj) == << obj.radix, obj.minLen, obj.maxLen, obj.tweakBytes >>

\* C12: context immutability.  Whatever calls were made on an object, ended
\* or running, successful or failed, its radix, minLen, maxLen and tweak
\* bytes are those the constructor set.
C12_ContextImmutable ==
  ctx # NoObject => FieldsOf(ctx) = FieldsOf(AsConstructed)

\* Reached: an encrypt and then a decrypt returned on an object, each after
\* eight passes that read the two halves of the tweak.
C12_Witness ==
  /\ ctx # NoObject
  /\ Len(hist) = 2
  /\ hist[1].op = "encrypt" /\ hist[1].err = "" /\ Len(hist[1].passes) = NUM_ROUNDS
  /\ hist[2].op = "decrypt" /\ hist[2].err = "" /\ Len(hist[2].passes) = NUM_ROUNDS

\* What each call of the two-object machine returns or throws on an object
\* that is the only one of its program.
Alone ==
  [key \in PairKeys, tweak \in PairTweaks, radix \in PairRadixes,
   op \in { "encrypt", "decrypt" }, text \in PairTexts |->
     ResultOn(FF3Cipher(key, tweak, radix).obj, op, text)]

AsAlone(args, calls) ==
  \A k \in 1..Len(calls) :
    [err |-> calls[k].err, out |-> calls[k].out]
      = Alone[args.key, args.tweak, args.radix, calls[k].op, calls[k].input]

\* C13: context independence.  Whatever the order in which the program
\* constructs and calls its two objects, every call on either ends as it does
\* on an object that is alone.
C13_ContextsIndependent ==
  /\ AsAlone(made, hist)
  /\ AsAlone(parked.made, parked.hist)

\* Reached: two objects of different keys; a call returned on one, then a
\* call on the other, then a call on the first again.
C13_Witness ==
  /\ made # NoMade /\ parked.made # NoMade
  /\ made.key # parked.made.key
  /\ Len(hist) = 2 /\ Len(parked.hist) = 1
  /\ hist[1].seq = 1 /\ parked.hist[1].seq = 2 /\ hist[2].seq = 3
  /\ hist[1].err = "" /\ parked.hist[1].err = "" /\ hist[2].err = ""

\* C14 as stated: no object has a maxLen above 56, whatever its radix.
C14_MaxLenAtMost56 ==
  ctx # NoObject => ctx.maxLen <= 56

\* C14 amended: the bound of 56 symbols is that of the radices from 10 up.
\* An object of a radix in 10..36 has maxLen <= 56; an object of a radix in
\* 2..9 has a maxLen above 56, and at most 192, which is that of radix 2.
C14_MaxLenByRadix ==
  ctx # NoObject =>
    /\ made.radix >= 10 => ctx.maxLen <= 56
    /\ made.radix < 10 => (56 < ctx.maxLen /\ ctx.maxLen <= 192)
    /\ made.radix = 2 => ctx.maxLen = 192

\* Reached: an object of radix 10, whose maxLen is 56, and no less.
C14_Witness ==
  /\ ctx # NoObject
  /\ made.radix = 10
  /\ ctx.maxLen = 56

\* m of the pass of index i of a call with halves of u and v characters.
HalfLen(i, u, v) == IF i % 2 = 0 THEN u ELSE v

\* C15: round output length.  The half a pass of encrypt or of decrypt has
\* just rendered has exactly m characters: u after a pass of even index, v
\* after a pass of odd index, whatever the round value, 0 included.
C15_RoundOutputLength ==
  call.pc = "round" =>
    /\ (call.op = "encrypt" /\ call.i > 0)
         => Len(call.B) = HalfLen(call.i - 1, call.u, call.v)
    /\ (call.op = "decrypt" /\ call.i < NUM_ROUNDS - 1)
         => Len(call.A) = HalfLen(call.i + 1, call.u, call.v)

\* The index of the j-th pass of an operation.
IndexOfPass(op, j) == IF op = "encrypt" THEN j - 1 ELSE NUM_ROUNDS - j

\* The first n passes of op, in order, each with one call of the cipher.
InSchedule(op, passes, n) ==
  /\ Len(passes) = n
  /\ \A j \in 1..n :
       passes[j].i = IndexOfPass(op, j) /\ passes[j].updates = 1

\* C16: round schedule.  A call on digits of the radix either fails the check
\* of the message length or of the tweak length having made no pass and no
\* call of the cipher, or returns after exactly 8 passes, of indices 0, 1,
\* ..., 7 for encrypt and 7, 6, ..., 0 for decrypt, each with exactly one call
\* of the cipher; while it runs, the passes made are the first of that order.
C16_RoundSchedule ==
  /\ \A k \in Calls :
       ValidDigits(hist[k].input, made.radix) =>
         \/ /\ hist[k].err \in { "InvalidMessageLength", "InvalidTweakLength" }
            /\ hist[k].passes = << >>
         \/ /\ hist[k].err = ""
            /\ InSchedule(hist[k].op, hist[k].passes, NUM_ROUNDS)
  /\ (call.pc = "round" /\ ValidDigits(call.input, made.radix)) =>
       /\ call.i \in -1..NUM_ROUNDS
       /\ InSchedule(call.op, call.passes,
                     IF call.op = "encrypt" THEN call.i
                     ELSE NUM_ROUNDS - 1 - call.i)

\* Reached: a decrypt returned after passes of indices 7 down to 0, and an
\* encrypt before it after passes of indices 0 up to 7.
C16_Witness ==
  /\ Len(hist) = 2
  /\ hist[1].op = "encrypt" /\ hist[1].err = ""
  /\ hist[1].passes[1].i = 0 /\ hist[1].passes[NUM_ROUNDS].i = NUM_ROUNDS - 1
  /\ hist[2].op = "decrypt" /\ hist[2].err = ""
  /\ hist[2].passes[1].i = NUM_ROUNDS - 1 /\ hist[2].passes[NUM_ROUNDS].i = 0

\* The tweak half of the pass of index i: bytes 4..7 of the tweak on even
\* passes, bytes 0..3 on odd ones.
HalfOfTweak(tweakBytes, i) ==
  IF i % 2 = 0 THEN SubSeq(tweakBytes, 5, 8) ELSE SubSeq(tweakBytes, 1, 4)

\* The block of a pass starts with the tweak half of its index, the index
\* XORed into the last byte.
UsedHalf(pass, tweakBytes) ==
  pass.updates = 1 =>
    /\ SubSeq(pass.P, 1, 3) = SubSeq(HalfOfTweak(tweakBytes, pass.i), 1, 3)
    /\ pass.P[4] = BitXor(HalfOfTweak(tweakBytes, pass.i)[4], pass.i)

\* C17: parity alternation.  A call that passed its checks on an input of n
\* symbols has u = ceil(n/2) and v = n - u and starts with A = the first u
\* symbols and B = the last v; its pass of index i takes bytes 4..7 of the
\* tweak and the modulus radix^u when i is even, bytes 0..3 and radix^v when i
\* is odd, in encrypt and in decrypt, and every pass made has put the half of
\* its index into its block.
C17_ParityAlternation ==
  /\ call.pc = "round" =>
       /\ call.u = (Len(call.input) + 1) \div 2
       /\ call.v = Len(call.input) - call.u
       /\ call.passes = << >> =>
            /\ call.A = SubSeq(call.input, 1, call.u)
            /\ call.B = SubSeq(call.input, call.u + 1, Len(call.input))
       /\ call.i \in 0..(NUM_ROUNDS - 1) =>
            /\ RoundW(call) = HalfOfTweak(ctx.tweakBytes, call.i)
            /\ RoundMod(call)
                 = PowerOf(ctx.radix, IF call.i % 2 = 0 THEN call.u ELSE call.v)
       /\ \A j \in 1..Len(call.passes) : UsedHalf(call.passes[j], ctx.tweakBytes)
  /\ \A k \in Calls : \A j \in 1..Len(hist[k].passes) :
       UsedHalf(hist[k].passes[j], ctx.tweakBytes)

\* Reached: a decrypt of an input of odd length (u = 10, v = 9) about to make
\* its pass of index 4, after that of index 5, whose block starts with bytes
\* 0..3 of the tweak.
C17_Witness ==
  /\ call.pc = "round" /\ call.op = "decrypt"
  /\ call.u = 10 /\ call.v = 9
  /\ call.i = 4
  /\ Len(call.passes) = 3
  /\ call.passes[3].i = 5
  /\ SubSeq(call.passes[3].P, 1, 3) = SubSeq(ctx.tweakBytes, 1, 3)
  /\ SubSeq(ctx.tweakBytes, 1, 3) # SubSeq(ctx.tweakBytes, 5, 7)

\* The value of a string of digits read most significant digit first, and of
\* bytes read big-endian: the value of the items lo..hi of s is that of its
\* first half times the base to the length of the second, plus that of the
\* second.
DigitOf(ch) == (CHOOSE d \in 1..Len(Alphabet) : Alphabet[d] = ch) - 1

RECURSIVE ValueFrom(_, _, _, _)
ValueFrom(s, base, lo, hi) ==
  IF lo > hi THEN BigZero
  ELSE IF lo = hi THEN BigOfInt(s[lo])
  ELSE BigAdd(BigMul(ValueFrom(s, base, lo, (lo + hi) \div 2),
                     BigPow(BigOfInt(base), hi - ((lo + hi) \div 2))),
              ValueFrom(s, base, ((lo + hi) \div 2) + 1, hi))

DigitsValue(s, radix) ==
  ValueFrom([k \in 1..Len(s) |-> DigitOf(s[k])], radix, 1, Len(s))

BytesValue(bytes) == ValueFrom(bytes, 256, 1, Len(bytes))

\* The block of a pass that was given a half of digits of the radix.
BlockLayout(pass, radix, W) ==
  (pass.half # << >> /\ ValidDigits(pass.half, radix)) =>
    /\ Len(pass.P) = 16
    /\ pass.P[1] = W[1] /\ pass.P[2] = W[2] /\ pass.P[3] = W[3]
    /\ pass.P[4] = BitXor(W[4], pass.i)
    /\ BytesValue(SubSeq(pass.P, 5, 16))
         = DigitsValue(reverseString(pass.half), radix)

LastPassLayout(passes) ==
  passes # << >> =>
    BlockLayout(passes[Len(passes)], ctx.radix,
                HalfOfTweak(ctx.tweakBytes, passes[Len(passes)].i))

\* C18: round block layout.  The block calculateP returns for round index i,
\* the tweak half W of that index and a half B of digits of the radix has 16
\* bytes: W[0], W[1], W[2], W[3] XOR i, and in the twelve bytes that follow
\* the value of the digit-reversed B, big-endian, with zero bytes on the left.
\* (Stated of the last pass of the running call and, when no call runs, of
\* the call that ended last: every pass is the last one in the state it
\* leaves, and every call that ended is the last one in the state its end
\* leaves.)
C18_BlockLayout ==
  /\ call.pc = "round" => LastPassLayout(call.passes)
  /\ (call.pc = "idle" /\ hist # << >>) => LastPassLayout(hist[Len(hist)].passes)

\* Reached: a pass of odd index on a half that is no string of zeros, whose
\* block has a fourth byte other than that of the tweak half and a last byte
\* other than 0.
C18_Witness ==
  /\ call.pc = "round"
  /\ call.passes # << >>
  /\ call.passes[Len(call.passes)].i = 3
  /\ call.passes[Len(call.passes)].half # Zeros(Len(call.passes[Len(call.passes)].half))
  /\ call.passes[Len(call.passes)].P[4] # ctx.tweakBytes[4]
  /\ call.passes[Len(call.passes)].P[16] # 0

\* A pass that called the cipher gave it one block of 16 bytes and got the 16
\* bytes that are the encryption of that block under the key.
OneBlock(pass, keyBytes) ==
  pass.updates = 1 =>
    /\ Len(pass.given) = BLOCK_SIZE
    /\ Len(pass.S) = BLOCK_SIZE
    /\ pass.S = AesBlock(keyBytes, pass.given)

\* C19: oracle independence.  Every call of the cipher made through the
\* handle of an object is given exactly one block of 16 bytes and returns 16
\* bytes that are a function of the key and of that block: the handle holds
\* no byte between two calls, and what it was given in an earlier pass or in
\* an earlier call, failed ones included, changes nothing.
C19_OracleIndependence ==
  /\ ctx # NoObject => ctx.aesCipher.pending = << >>
  /\ call.pc = "round" =>
       \A j \in 1..Len(call.passes) : OneBlock(call.passes[j], ctx.aesCipher.key)
  /\ \A k \in Calls : \A j \in 1..Len(hist[k].passes) :
       OneBlock(hist[k].passes[j], ctx.aesCipher.key)

\* Reached: under a key that is not zero, the second call on an object gave
\* the cipher a block the first call had given it, after other blocks, and got
\* the same bytes.
C19_Witness ==
  /\ Len(hist) = 2
  /\ Len(hist[1].passes) = NUM_ROUNDS /\ Len(hist[2].passes) = NUM_ROUNDS
  /\ hist[2].passes[1].given = hist[1].passes[1].given
  /\ hist[2].passes[1].S = hist[1].passes[1].S
  /\ hist[1].passes[NUM_ROUNDS].given # hist[1].passes[1].given
  /\ hist[1].passes[NUM_ROUNDS].S # hist[1].passes[1].S
  /\ hist[1].passes[1].S # [j \in 1..BLOCK_SIZE |-> 0]

\* C20: radix decoding.  For every radix in 2..36 and every string of digits
\* of the radix that is not empty and no longer than maxLen of the radix,
\* convertToBigInt returns the value of the string read most significant
\* digit first, whatever the chunks the string was cut into, and the value
\* of every chunk is below 2^53.
C20_RadixDecoding ==
  call.pc = "converted" =>
    /\ call.big.ok
    /\ call.big.val = DigitsValue(call.value, call.radix)
    /\ \A k \in 1..Len(call.parts) :
         BigLess(DigitsValue(call.parts[k], call.radix),
                 Big(FALSE, Pow2Mag(NumberBits)))

\* Reached: a string of the largest digit of radix 36, of the largest length
\* an object of that radix takes, was cut into a short chunk and whole ones
\* and converted to a value of more than 53 bits.
C20_Witness ==
  /\ call.pc = "converted"
  /\ call.radix = MAX_RADIX
  /\ call.value = TopDigits(MAX_RADIX, MaxLens[MAX_RADIX])
  /\ Len(call.parts) > 2
  /\ Len(call.parts[1]) < size
  /\ Len(call.parts[2]) = size
  /\ call.big.ok
  /\ MagBitLen(call.big.val.mag) > NumberBits

\* r is the remainder of the Euclidean division of n by m: 0 <= r < m and
\* n - r is a multiple of m.
IsEuclideanRemainder(r, n, m) ==
  /\ ~r.neg
  /\ BigLess(r, m)
  /\ BigMul(BigQuot(BigSub(n, r), m), m) = BigSub(n, r)

\* The pass of a call on an input of len symbols reduced its value to one
\* below radix^m, m being the length of the half of its index.
ReducedInRange(pass, radix, len) ==
  "c" \in DOMAIN pass =>
    IsEuclideanRemainder(pass.c, pass.n,
                         PowerOf(radix, IF pass.i % 2 = 0 THEN (len + 1) \div 2
                                        ELSE len - ((len + 1) \div 2)))

\* C21: Euclidean reduction.  FF3Cipher.mod(n, m) returns, for every integer
\* n, negative ones included, and every m > 0, the r with 0 <= r < m that is
\* congruent to n modulo m; so in every pass of encrypt (on c + y) and of
\* decrypt (on c - y) the reduced value is in [0, radix^m).  (Stated of the
\* last pass of the running call: a pass that reduced a value is the last one
\* in the state it leaves.)
C21_EuclideanReduction ==
  /\ call.pc = "reduced" => IsEuclideanRemainder(call.r, call.n, call.m)
  /\ (call.pc = "round" /\ call.passes # << >>) =>
       ReducedInRange(call.passes[Len(call.passes)], ctx.radix, Len(call.input))

\* Reached: a pass of decrypt gave mod a negative value, c - y, and got a
\* value that is not 0 and not the remainder that has the sign of c - y.
C21_Witness ==
  /\ call.pc = "round" /\ call.op = "decrypt"
  /\ Len(call.passes) = 1
  /\ "c" \in DOMAIN call.passes[1]
  /\ call.passes[1].n.neg
  /\ call.passes[1].c # BigZero
  /\ call.passes[1].c # BigRem(call.passes[1].n, call.modU)
  /\ call.passes[1].c # BigRem(call.passes[1].n, call.modV)

\* calculateP(i, radix, W, B) gave P, [ok, P], and kept the block: the value
\* it read from the reversed B is below 2^96 and has at most 12 bytes, P has
\* 16 bytes and its first four are W[0], W[1], W[2] and W[3] XOR i.  (Nothing
\* is written when the conversion of B throws.)
BlockKeptFor(i, W, big, P) ==
  big.ok =>
    /\ BigLess(big.val, TwoTo96)
    /\ Len(bigToUint8Array(big.val)) <= BLOCK_SIZE - 4
    /\ P.ok
    /\ Len(P.P) = BLOCK_SIZE
    /\ SubSeq(P.P, 1, 4) = << W[1], W[2], W[3], BitXor(W[4], i) >>

BlockKept(i, radix, W, B, P) ==
  BlockKeptFor(i, W, convertToBigInt(reverseString(B), radix), P)

\* C22: for every radix in 2..36 and every half of an input that encrypt or
\* decrypt accepts (of at most maxLen/2 characters, in every pass), the value
\* of the reversed half is below 2^96, its bytes are at most 12, and
\* calculateP writes neither over P[0..3] nor outside the 16 bytes of P.
\* (Stated of calculateP called alone on a half of the length of a half of a
\* message the radix accepts, and of the last pass of the running call.)
C22_BlockKept ==
  /\ (/\ call.pc = "blocked"
      /\ Len(call.B) >= MinLens[call.radix] \div 2
      /\ Len(call.B) <= MaxLens[call.radix] \div 2) =>
       BlockKept(call.i, call.radix, call.W, call.B, call.P)
  /\ (call.pc = "round" /\ call.passes # << >>) =>
       /\ Len(call.passes[Len(call.passes)].half) <= ctx.maxLen \div 2
       /\ call.passes[Len(call.passes)].P # << >> =>
            BlockKept(call.passes[Len(call.passes)].i, ctx.radix,
                      HalfOfTweak(ctx.tweakBytes, call.passes[Len(call.passes)].i),
                      call.passes[Len(call.passes)].half,
                      [ok |-> TRUE, P |-> call.passes[Len(call.passes)].P])

====
